---- MODULE Spec2Model ----
(***************************************************************************)
(* KY-027 "magic light cup" controller (src/src/main.cpp).                 *)
(*                                                                         *)
(* Two tilt switches are polled every readInterval ms; each drives a       *)
(* linear brightness ramp written to a PWM output; every updateInterval ms *)
(* the two brightness values are printed on the TFT.  setup() runs once,   *)
(* then loop() runs forever.  One action models one call of setup() or     *)
(* loop().  The inputs of loop() are the value millis() returns and the    *)
(* levels digitalRead() returns.                                           *)
(***************************************************************************)
EXTENDS Integers, Sequences, FiniteSets, TLC

(***************************************************************************)
(* Bounds of the model.                                                    *)
(***************************************************************************)
\* loop() iterations explored by Spec
MaxLoops == 5
\* loop() iterations explored by RampSpec (one sample tick each)
MaxRampTicks == 131
\* loop() iterations explored by RunSpec (one sample tick each)
MaxRunTicks == 258
\* loop() iterations explored by WrapSpec
MaxWrapLoops == 4
\* loop() iterations explored by PairSpec
MaxPairLoops == 3
\* character cells of one display row that the model keeps
FieldCols == 8

(***************************************************************************)
(* Program constants.                                                      *)
(***************************************************************************)
LOW == 0
HIGH == 1
readInterval == 5
updateInterval == 100
brightnessSteps == 2
MaxBrightness == 255
MinBrightness == 0
\* unsigned long is 32 bits wide: a value is <<high half, low half>>,
\* each half in 0..HalfBase-1 (2^32 itself is no TLC integer)
HalfBase == 65536

Levels == {LOW, HIGH}

\* clock advances between two calls of loop() explored by Spec: none, less
\* than readInterval, readInterval, and just short of updateInterval
Deltas == {0, readInterval - 2, readInterval, updateInterval - 3}

(***************************************************************************)
(* unsigned long arithmetic (modulo 2^32) on <<hi, lo>> pairs.             *)
(***************************************************************************)
U32Zero == <<0, 0>>

\* a + d for a small d >= 0: what millis() returns d ms after it returned a
U32Add(a, d) ==
  LET lo == a[2] + d
  IN  <<(a[1] + (lo \div HalfBase)) % HalfBase, lo % HalfBase>>

\* faulty variant of U32Sub: the difference is not taken modulo 2^32 but
\* held at 0 when a is the smaller number
U32SubNoWrap(a, b) ==
  IF a[1] < b[1] \/ (a[1] = b[1] /\ a[2] < b[2]) THEN <<0, 0>>
  ELSE LET borrow == IF a[2] < b[2] THEN 1 ELSE 0
       IN  <<a[1] - b[1] - borrow, (a[2] - b[2] + HalfBase) % HalfBase>>

\* a - b in unsigned arithmetic: wraps modulo 2^32
U32Sub(a, b) ==
  LET borrow == IF a[2] < b[2] THEN 1 ELSE 0
  IN  <<(a[1] - b[1] - borrow + HalfBase) % HalfBase,
        (a[2] - b[2] + HalfBase) % HalfBase>>

\* a >= n for a constant 0 <= n < HalfBase, compared as unsigned long
U32Geq(a, n) == a[1] > 0 \/ a[2] >= n

\* faulty variant of ReadDue: the threshold is two short
ReadDueEarly(cur, prev) == U32Geq(U32Sub(cur, prev), readInterval - 2)

\* currentMillis - previousReadMillis >= readInterval
ReadDue(cur, prev) == U32Geq(U32Sub(cur, prev), readInterval)

\* faulty variant of UpdateDue: > where the code has >=
UpdateDueStrict(cur, prev) == U32Geq(U32Sub(cur, prev), updateInterval + 1)

\* currentMillis - previousUpdateMillis >= updateInterval
UpdateDue(cur, prev) == U32Geq(U32Sub(cur, prev), updateInterval)

(***************************************************************************)
(* The brightness ramp of one channel: one pass of the fade code.          *)
(* The result records which clamp assignment ran ("hi", "lo" or "none").   *)
(***************************************************************************)
\* faulty variant of Fade: the two clamp statements are missing
FadeNoClamp(sw, b) ==
  IF sw = LOW
  THEN IF b < MaxBrightness
       THEN [b |-> b + brightnessSteps, clamp |-> "none"]
       ELSE [b |-> b, clamp |-> "none"]
  ELSE IF b > MinBrightness
       THEN [b |-> b - brightnessSteps, clamp |-> "none"]
       ELSE [b |-> b, clamp |-> "none"]

\* faulty variant of Fade: a step that would leave [0,255] is not taken
FadeStopShort(sw, b) ==
  IF sw = LOW
  THEN IF b + brightnessSteps <= MaxBrightness
       THEN [b |-> b + brightnessSteps, clamp |-> "none"]
       ELSE [b |-> b, clamp |-> "none"]
  ELSE IF b - brightnessSteps >= MinBrightness
       THEN [b |-> b - brightnessSteps, clamp |-> "none"]
       ELSE [b |-> b, clamp |-> "none"]

\* faulty variant of Fade: the step is 1 (brightness++ / brightness--)
FadeUnitStep(sw, b) ==
  IF sw = LOW
  THEN IF b < MaxBrightness
       THEN [b |-> b + 1, clamp |-> "none"]
       ELSE [b |-> b, clamp |-> "none"]
  ELSE IF b > MinBrightness
       THEN [b |-> b - 1, clamp |-> "none"]
       ELSE [b |-> b, clamp |-> "none"]

\* faulty variant of Fade: the fall is half as fast as the rise
FadeSlowFall(sw, b) ==
  IF sw = LOW
  THEN IF b < MaxBrightness
       THEN LET n == b + brightnessSteps
            IN  IF n > MaxBrightness
                THEN [b |-> MaxBrightness, clamp |-> "hi"]
                ELSE [b |-> n, clamp |-> "none"]
       ELSE [b |-> b, clamp |-> "none"]
  ELSE IF b > MinBrightness
       THEN [b |-> b - brightnessSteps \div 2, clamp |-> "none"]
       ELSE [b |-> b, clamp |-> "none"]

\* faulty variant of Fade: the switch is taken to be active high
FadeActiveHigh(sw, b) ==
  IF sw = HIGH
  THEN IF b < MaxBrightness
       THEN LET n == b + brightnessSteps
            IN  IF n > MaxBrightness
                THEN [b |-> MaxBrightness, clamp |-> "hi"]
                ELSE [b |-> n, clamp |-> "none"]
       ELSE [b |-> b, clamp |-> "none"]
  ELSE IF b > MinBrightness
       THEN LET n == b - brightnessSteps
            IN  IF n < MinBrightness
                THEN [b |-> MinBrightness, clamp |-> "lo"]
                ELSE [b |-> n, clamp |-> "none"]
       ELSE [b |-> b, clamp |-> "none"]

\* faulty variant of Fade: the fade code runs twice in one sample stage
FadeTwice(sw, b) ==
  IF sw = LOW
  THEN IF b < MaxBrightness
       THEN LET n == b + 2 * brightnessSteps
            IN  IF n > MaxBrightness
                THEN [b |-> MaxBrightness, clamp |-> "hi"]
                ELSE [b |-> n, clamp |-> "none"]
       ELSE [b |-> b, clamp |-> "none"]
  ELSE IF b > MinBrightness
       THEN LET n == b - 2 * brightnessSteps
            IN  IF n < MinBrightness
                THEN [b |-> MinBrightness, clamp |-> "lo"]
                ELSE [b |-> n, clamp |-> "none"]
       ELSE [b |-> b, clamp |-> "none"]

Fade(sw, b) ==
  IF sw = LOW
  THEN IF b < MaxBrightness
       THEN LET n == b + brightnessSteps
            IN  IF n > MaxBrightness
                THEN [b |-> MaxBrightness, clamp |-> "hi"]
                ELSE [b |-> n, clamp |-> "none"]
       ELSE [b |-> b, clamp |-> "none"]
  ELSE IF b > MinBrightness
       THEN LET n == b - brightnessSteps
            IN  IF n < MinBrightness
                THEN [b |-> MinBrightness, clamp |-> "lo"]
                ELSE [b |-> n, clamp |-> "none"]
       ELSE [b |-> b, clamp |-> "none"]

\* faulty variant of Seed: the switch is taken to be active high
SeedActiveHigh(sw, b) == IF sw = HIGH THEN MaxBrightness ELSE b

\* setup(): a channel whose switch reads LOW starts at full brightness
Seed(sw, b) == IF sw = LOW THEN MaxBrightness ELSE b

(***************************************************************************)
(* The display: a count of how often the static header and labels were     *)
(* drawn, and the character cells of the two value rows (cursor x = 0 is   *)
(* cell 1).                                                                *)
(***************************************************************************)
DigitChars == <<"0", "1", "2", "3", "4", "5", "6", "7", "8", "9">>

BlankRow == [i \in 1..FieldCols |-> " "]

\* the six spaces printed over a value before it is printed again
ClearText == <<" ", " ", " ", " ", " ", " ">>

RECURSIVE Digits(_)
\* Print::printNumber: the decimal digits of n >= 0, most significant first
Digits(n) ==
  IF n < 10 THEN <<DigitChars[n + 1]>>
  ELSE Append(Digits(n \div 10), DigitChars[(n % 10) + 1])

\* tft.print(int): a minus sign for a negative number, then its digits
IntText(n) == IF n < 0 THEN <<"-">> \o Digits(0 - n) ELSE Digits(n)

\* tft.setCursor(0, y); tft.print(text): text overwrites the row from cell 1
PrintAt(row, text) ==
  [i \in 1..Len(row) |-> IF i <= Len(text) THEN text[i] ELSE row[i]]

drawStaticElements(t) ==
  [staticDraws |-> t.staticDraws + 1, fieldA |-> BlankRow, fieldB |-> BlankRow]

\* faulty variant of updateDynamicElements: every refresh redraws the
\* whole screen before it prints the two values
updateDynamicElementsRedraw(t, bA, bB) ==
  [staticDraws |-> t.staticDraws + 1,
   fieldA |-> PrintAt(BlankRow, IntText(bA)),
   fieldB |-> PrintAt(BlankRow, IntText(bB))]

\* faulty variant of updateDynamicElements: the value is printed over the
\* old one without the six spaces first
updateDynamicElementsNoClear(t, bA, bB) ==
  [staticDraws |-> t.staticDraws,
   fieldA |-> PrintAt(t.fieldA, IntText(bA)),
   fieldB |-> PrintAt(t.fieldB, IntText(bB))]

updateDynamicElements(t, bA, bB) ==
  [staticDraws |-> t.staticDraws,
   fieldA |-> PrintAt(PrintAt(t.fieldA, ClearText), IntText(bA)),
   fieldB |-> PrintAt(PrintAt(t.fieldB, ClearText), IntText(bB))]

(***************************************************************************)
(* State.                                                                  *)
(***************************************************************************)
VARIABLES
  pc,                    \* "boot" before setup(), "loop" after it
  clock,                 \* the value millis() returned last (0 at boot)
  previousReadMillis,
  previousUpdateMillis,
  switchStateA,
  switchStateB,
  brightnessA,
  brightnessB,
  redrawRequired,
  pwmA,                  \* last value given to analogWrite(ledPinA, _); -1: none
  pwmB,                  \* last value given to analogWrite(ledPinB, _); -1: none
  tft,                   \* the display
  pinA,                  \* level on switchPinA at the last call of setup() or
  pinB,                  \*   loop() (switchPinB likewise); -1 before setup()
  \* history of the run, read by the properties only
  loops,                 \* calls of loop() so far
  reads,                 \* executions of the sample-and-actuate stage so far
  updates,               \* executions of the render stage so far
  ranRead,               \* the last call of loop() ran the sample stage
  ranUpdate,             \* the last call of loop() ran the render stage
  readElapsed,           \* at the last call of loop(): ms since the previous
                         \*   sample stage (since boot when there was none)
  updateElapsed,         \* the same for the render stage
  upFromZeroA,           \* sample ticks, all LOW, since brightnessA was 0; -1: none
  upFromZeroB,
  downFromFullA,         \* sample ticks, all HIGH, since brightnessA was 255; -1: none
  downFromFullB,
  clampA,                \* clamp assignment run for A by the last sample stage
  clampB,
  \* history kept by RunSpec alone (the other specifications leave it at 0)
  runA,                  \* latest sample ticks that all read the level
  runB,                  \*   switchStateA holds (switchStateB likewise)
  \* a second run of the program, kept by PairSpec alone: same clock readings,
  \* same switch levels on the channel named by twin.shared
  twin,
  \* history kept by TripSpec alone
  trip                   \* brightness and level at the two latest sample ticks

vars == <<pc, clock, previousReadMillis, previousUpdateMillis, switchStateA,
          switchStateB, brightnessA, brightnessB, redrawRequired, pwmA, pwmB,
          tft, pinA, pinB, loops, reads, updates, ranRead, ranUpdate, readElapsed,
          updateElapsed, upFromZeroA, upFromZeroB, downFromFullA,
          downFromFullB, clampA, clampB, runA, runB, twin, trip>>

hist == <<loops, reads, updates, ranRead, ranUpdate, readElapsed, updateElapsed,
          upFromZeroA, upFromZeroB, downFromFullA, downFromFullB, clampA, clampB>>

\* the globals as their initialisers leave them
Init ==
  /\ pc = "boot"
  /\ clock = U32Zero
  /\ previousReadMillis = U32Zero
  /\ previousUpdateMillis = U32Zero
  /\ switchStateA = HIGH
  /\ switchStateB = HIGH
  /\ brightnessA = 0
  /\ brightnessB = 0
  /\ redrawRequired = TRUE
  /\ pwmA = -1
  /\ pwmB = -1
  /\ tft = [staticDraws |-> 0, fieldA |-> BlankRow, fieldB |-> BlankRow]
  /\ pinA = -1
  /\ pinB = -1
  /\ loops = 0
  /\ reads = 0
  /\ updates = 0
  /\ ranRead = FALSE
  /\ ranUpdate = FALSE
  /\ readElapsed = 0
  /\ updateElapsed = 0
  /\ upFromZeroA = -1
  /\ upFromZeroB = -1
  /\ downFromFullA = -1
  /\ downFromFullB = -1
  /\ clampA = "none"
  /\ clampB = "none"
  /\ runA = 0
  /\ runB = 0
  /\ twin = [shared |-> "none", previousReadMillis |-> U32Zero,
             switchStateA |-> HIGH, switchStateB |-> HIGH,
             brightnessA |-> 0, brightnessB |-> 0, pwmA |-> -1, pwmB |-> -1]
  /\ trip = [beforeA |-> -1, before2A |-> -1, levelA |-> -1,
             beforeB |-> -1, before2B |-> -1, levelB |-> -1]

\* length of the run of LOW sample ticks that began at brightness 0
UpRun(run, before, sw) ==
  IF sw # LOW THEN -1
  ELSE IF before = MinBrightness THEN 1
  ELSE IF run >= 0 THEN run + 1
  ELSE -1

\* length of the run of HIGH sample ticks that began at brightness 255
DownRun(run, before, sw) ==
  IF sw # HIGH THEN -1
  ELSE IF before = MaxBrightness THEN 1
  ELSE IF run >= 0 THEN run + 1
  ELSE -1

\* setup() with the two levels digitalRead() returns
SetupWith(inA, inB) ==
  /\ pc = "boot"
  /\ pc' = "loop"
  /\ pinA' = inA
  /\ pinB' = inB
  /\ tft' = drawStaticElements(tft)
  /\ switchStateA' = inA
  /\ switchStateB' = inB
  /\ brightnessA' = Seed(inA, brightnessA)
  /\ brightnessB' = Seed(inB, brightnessB)
  /\ pwmA' = brightnessA'
  /\ pwmB' = brightnessB'
  /\ redrawRequired' = TRUE
  /\ UNCHANGED <<clock, previousReadMillis, previousUpdateMillis>>
  /\ UNCHANGED hist

Setup ==
  /\ \E inA \in Levels, inB \in Levels : SetupWith(inA, inB)
  /\ UNCHANGED <<runA, runB, twin, trip>>

\* faulty variant of SampleStage: both ramps follow switch A
SampleStageOneSwitch(cur, inA, inB, bA, bB) ==
  LET fadeA == Fade(inA, bA)
      fadeB == Fade(inA, bB)
  IN  [previousReadMillis |-> cur,
       switchStateA |-> inA, switchStateB |-> inB,
       brightnessA |-> fadeA.b, brightnessB |-> fadeB.b,
       pwmA |-> fadeA.b, pwmB |-> fadeB.b,
       clampA |-> fadeA.clamp, clampB |-> fadeB.clamp]

\* faulty variant of SampleStage: the LEDs are written before the ramps move
SampleStageStaleWrite(cur, inA, inB, bA, bB) ==
  LET fadeA == Fade(inA, bA)
      fadeB == Fade(inB, bB)
  IN  [previousReadMillis |-> cur,
       switchStateA |-> inA, switchStateB |-> inB,
       brightnessA |-> fadeA.b, brightnessB |-> fadeB.b,
       pwmA |-> bA, pwmB |-> bB,
       clampA |-> fadeA.clamp, clampB |-> fadeB.clamp]

\* faulty variant of SampleStage: the sample timer is kept on the grid of
\* multiples of readInterval (cur minus cur modulo readInterval; 2^16 is
\* 1 modulo 5) instead of being set to the clock reading
SampleStageGridTimer(cur, inA, inB, bA, bB) ==
  LET fadeA == Fade(inA, bA)
      fadeB == Fade(inB, bB)
  IN  [previousReadMillis |->
         U32Sub(cur, <<0, (cur[1] + cur[2]) % readInterval>>),
       switchStateA |-> inA, switchStateB |-> inB,
       brightnessA |-> fadeA.b, brightnessB |-> fadeB.b,
       pwmA |-> fadeA.b, pwmB |-> fadeB.b,
       clampA |-> fadeA.clamp, clampB |-> fadeB.clamp]

\* the sample-and-actuate stage of loop() at clock reading cur: the sample
\* timer is set, both switches are read, both ramps move one step, both
\* LEDs are written
SampleStage(cur, inA, inB, bA, bB) ==
  LET fadeA == Fade(inA, bA)
      fadeB == Fade(inB, bB)
  IN  [previousReadMillis |-> cur,
       switchStateA |-> inA, switchStateB |-> inB,
       brightnessA |-> fadeA.b, brightnessB |-> fadeB.b,
       pwmA |-> fadeA.b, pwmB |-> fadeB.b,
       clampA |-> fadeA.clamp, clampB |-> fadeB.clamp]

\* faulty variant of LoopWith: the render stage stands before the sample
\* stage and prints the brightness as it was when loop() was entered
LoopWithRenderFirst(d, inA, inB) ==
  LET currentMillis == U32Add(clock, d)
      readDue == ReadDue(currentMillis, previousReadMillis)
      updateDue == UpdateDue(currentMillis, previousUpdateMillis)
      s == SampleStage(currentMillis, inA, inB, brightnessA, brightnessB)
  IN
  /\ pc = "loop"
  /\ clock' = currentMillis
  /\ pinA' = inA
  /\ pinB' = inB
  /\ IF readDue
     THEN /\ previousReadMillis' = s.previousReadMillis
          /\ switchStateA' = s.switchStateA
          /\ switchStateB' = s.switchStateB
          /\ brightnessA' = s.brightnessA
          /\ brightnessB' = s.brightnessB
          /\ pwmA' = s.pwmA
          /\ pwmB' = s.pwmB
          /\ reads' = reads + 1
          /\ upFromZeroA' = UpRun(upFromZeroA, brightnessA, s.switchStateA)
          /\ upFromZeroB' = UpRun(upFromZeroB, brightnessB, s.switchStateB)
          /\ downFromFullA' = DownRun(downFromFullA, brightnessA, s.switchStateA)
          /\ downFromFullB' = DownRun(downFromFullB, brightnessB, s.switchStateB)
          /\ clampA' = s.clampA
          /\ clampB' = s.clampB
     ELSE UNCHANGED <<previousReadMillis, switchStateA, switchStateB,
                      brightnessA, brightnessB, pwmA, pwmB, reads,
                      upFromZeroA, upFromZeroB, downFromFullA, downFromFullB,
                      clampA, clampB>>
  /\ IF updateDue
     THEN /\ previousUpdateMillis' = currentMillis
          /\ tft' = updateDynamicElements(tft, brightnessA, brightnessB)
          /\ updates' = updates + 1
     ELSE UNCHANGED <<previousUpdateMillis, tft, updates>>
  /\ loops' = loops + 1
  /\ ranRead' = readDue
  /\ ranUpdate' = updateDue
  /\ readElapsed' = (IF ranRead THEN 0 ELSE readElapsed) + d
  /\ updateElapsed' = (IF ranUpdate THEN 0 ELSE updateElapsed) + d
  /\ UNCHANGED <<pc, redrawRequired>>

\* faulty variant of LoopWith: the sample stage also restarts the render
\* timer
LoopWithSharedTimer(d, inA, inB) ==
  LET currentMillis == U32Add(clock, d)
      readDue == ReadDue(currentMillis, previousReadMillis)
      updateDue == UpdateDue(currentMillis, previousUpdateMillis)
      s == SampleStage(currentMillis, inA, inB, brightnessA, brightnessB)
  IN
  /\ pc = "loop"
  /\ clock' = currentMillis
  /\ pinA' = inA
  /\ pinB' = inB
  /\ IF readDue
     THEN /\ previousReadMillis' = s.previousReadMillis
          /\ switchStateA' = s.switchStateA
          /\ switchStateB' = s.switchStateB
          /\ brightnessA' = s.brightnessA
          /\ brightnessB' = s.brightnessB
          /\ pwmA' = s.pwmA
          /\ pwmB' = s.pwmB
          /\ reads' = reads + 1
          /\ upFromZeroA' = UpRun(upFromZeroA, brightnessA, s.switchStateA)
          /\ upFromZeroB' = UpRun(upFromZeroB, brightnessB, s.switchStateB)
          /\ downFromFullA' = DownRun(downFromFullA, brightnessA, s.switchStateA)
          /\ downFromFullB' = DownRun(downFromFullB, brightnessB, s.switchStateB)
          /\ clampA' = s.clampA
          /\ clampB' = s.clampB
     ELSE UNCHANGED <<previousReadMillis, switchStateA, switchStateB,
                      brightnessA, brightnessB, pwmA, pwmB, reads,
                      upFromZeroA, upFromZeroB, downFromFullA, downFromFullB,
                      clampA, clampB>>
  /\ IF updateDue
     THEN /\ previousUpdateMillis' = currentMillis
          /\ tft' = updateDynamicElements(tft, brightnessA', brightnessB')
          /\ updates' = updates + 1
     ELSE /\ previousUpdateMillis' =
               (IF readDue THEN currentMillis ELSE previousUpdateMillis)
          /\ UNCHANGED <<tft, updates>>
  /\ loops' = loops + 1
  /\ ranRead' = readDue
  /\ ranUpdate' = updateDue
  /\ readElapsed' = (IF ranRead THEN 0 ELSE readElapsed) + d
  /\ updateElapsed' = (IF ranUpdate THEN 0 ELSE updateElapsed) + d
  /\ UNCHANGED <<pc, redrawRequired>>

\* loop() when millis() returns clock + d and digitalRead() returns inA, inB
LoopWith(d, inA, inB) ==
  LET currentMillis == U32Add(clock, d)
      readDue == ReadDue(currentMillis, previousReadMillis)
      updateDue == UpdateDue(currentMillis, previousUpdateMillis)
      s == SampleStage(currentMillis, inA, inB, brightnessA, brightnessB)
  IN
  /\ pc = "loop"
  /\ clock' = currentMillis
  /\ pinA' = inA
  /\ pinB' = inB
  /\ IF readDue
     THEN /\ previousReadMillis' = s.previousReadMillis
          /\ switchStateA' = s.switchStateA
          /\ switchStateB' = s.switchStateB
          /\ brightnessA' = s.brightnessA
          /\ brightnessB' = s.brightnessB
          /\ pwmA' = s.pwmA
          /\ pwmB' = s.pwmB
          /\ reads' = reads + 1
          /\ upFromZeroA' = UpRun(upFromZeroA, brightnessA, s.switchStateA)
          /\ upFromZeroB' = UpRun(upFromZeroB, brightnessB, s.switchStateB)
          /\ downFromFullA' = DownRun(downFromFullA, brightnessA, s.switchStateA)
          /\ downFromFullB' = DownRun(downFromFullB, brightnessB, s.switchStateB)
          /\ clampA' = s.clampA
          /\ clampB' = s.clampB
     ELSE UNCHANGED <<previousReadMillis, switchStateA, switchStateB,
                      brightnessA, brightnessB, pwmA, pwmB, reads,
                      upFromZeroA, upFromZeroB, downFromFullA, downFromFullB,
                      clampA, clampB>>
  /\ IF updateDue
     THEN /\ previousUpdateMillis' = currentMillis
          /\ tft' = updateDynamicElements(tft, brightnessA', brightnessB')
          /\ updates' = updates + 1
     ELSE UNCHANGED <<previousUpdateMillis, tft, updates>>
  /\ loops' = loops + 1
  /\ ranRead' = readDue
  /\ ranUpdate' = updateDue
  /\ readElapsed' = (IF ranRead THEN 0 ELSE readElapsed) + d
  /\ updateElapsed' = (IF ranUpdate THEN 0 ELSE updateElapsed) + d
  /\ UNCHANGED <<pc, redrawRequired>>

\* loop() under any clock advance of Deltas and any two switch levels
Loop ==
  /\ loops < MaxLoops
  /\ \E d \in Deltas, inA \in Levels, inB \in Levels : LoopWith(d, inA, inB)
  /\ UNCHANGED <<runA, runB, twin, trip>>

Next == Setup \/ Loop

Spec == Init /\ [][Next]_vars

\* loop() called once per readInterval, the two cups mounted on one board:
\* at each sample both switches keep their level or both change it
RampLoop ==
  /\ loops < MaxRampTicks
  /\ \E flip \in BOOLEAN :
       LoopWith(readInterval,
                IF flip THEN 1 - switchStateA ELSE switchStateA,
                IF flip THEN 1 - switchStateB ELSE switchStateB)
  /\ UNCHANGED <<runA, runB, twin, trip>>

RampNext == Setup \/ RampLoop

RampSpec == Init /\ [][RampNext]_vars

\* length of the run of sample ticks that read the level now held, after a
\* sample stage that read level now where level before was held
RunLength(run, before, now) == IF now = before THEN run + 1 ELSE 1

\* loop() called once per readInterval over a long run in which the cups
\* are turned over at most once after the first sample: both switches keep
\* their level, or (if no sample so far changed a level) both change it
RunLoop ==
  /\ loops < MaxRunTicks
  /\ \E flip \in BOOLEAN :
       /\ flip => runA = reads
       /\ LoopWith(readInterval,
                   IF flip THEN 1 - switchStateA ELSE switchStateA,
                   IF flip THEN 1 - switchStateB ELSE switchStateB)
  /\ runA' = RunLength(runA, switchStateA, switchStateA')
  /\ runB' = RunLength(runB, switchStateB, switchStateB')
  /\ UNCHANGED <<twin, trip>>

RunNext == Setup \/ RunLoop

RunSpec == Init /\ [][RunNext]_vars

\* the clock reading 2^32 - 96, the last multiple of updateInterval (and of
\* readInterval) before the millisecond counter wraps to 0
WrapStart == <<HalfBase - 1, HalfBase - 96>>

\* calls of loop() up to that reading, one per readInterval:
\* (2^32 - 96) / 5 = 858993440
WrapLoopsBefore ==
  (HalfBase \div readInterval) * HalfBase + (HalfBase - 96) \div readInterval

\* renders up to that reading, one per updateInterval: 42949672
WrapUpdatesBefore == WrapLoopsBefore \div (updateInterval \div readInterval)

\* the program 49.7 days after boot: setup() read the levels sA and sB,
\* loop() was called once per readInterval ever since and read the same
\* levels each time, and the call at WrapStart has just run both stages
WrapInitWith(sA, sB) ==
  /\ pc = "loop"
  /\ clock = WrapStart
  /\ previousReadMillis = WrapStart
  /\ previousUpdateMillis = WrapStart
  /\ switchStateA = sA
  /\ switchStateB = sB
  /\ brightnessA = Seed(sA, 0)
  /\ brightnessB = Seed(sB, 0)
  /\ redrawRequired = TRUE
  /\ pwmA = brightnessA
  /\ pwmB = brightnessB
  /\ tft = [staticDraws |-> 1,
            fieldA |-> PrintAt(BlankRow, IntText(brightnessA)),
            fieldB |-> PrintAt(BlankRow, IntText(brightnessB))]
  /\ pinA = sA
  /\ pinB = sB
  /\ loops = WrapLoopsBefore
  /\ reads = WrapLoopsBefore
  /\ updates = WrapUpdatesBefore
  /\ ranRead = TRUE
  /\ ranUpdate = TRUE
  /\ readElapsed = readInterval
  /\ updateElapsed = updateInterval
  /\ upFromZeroA = -1
  /\ upFromZeroB = -1
  /\ downFromFullA = -1
  /\ downFromFullB = -1
  /\ clampA = "none"
  /\ clampB = "none"
  /\ runA = 0
  /\ runB = 0
  /\ twin = [shared |-> "none", previousReadMillis |-> U32Zero,
             switchStateA |-> HIGH, switchStateB |-> HIGH,
             brightnessA |-> 0, brightnessB |-> 0, pwmA |-> -1, pwmB |-> -1]
  /\ trip = [beforeA |-> -1, before2A |-> -1, levelA |-> -1,
             beforeB |-> -1, before2B |-> -1, levelB |-> -1]

WrapInit == \E sA \in Levels, sB \in Levels : WrapInitWith(sA, sB)

\* loop() around the wrap of the counter, under any clock advance of Deltas
\* and any two switch levels
WrapLoop ==
  /\ loops < WrapLoopsBefore + MaxWrapLoops
  /\ \E d \in Deltas, inA \in Levels, inB \in Levels : LoopWith(d, inA, inB)
  /\ UNCHANGED <<runA, runB, twin, trip>>

WrapNext == WrapLoop

WrapSpec == WrapInit /\ [][WrapNext]_vars

\* the levels the second run may read when the first reads inA and inB: the
\* same on the shared channel, any on the other
TwinLevels(shared, inA, inB) ==
  {t \in Levels \X Levels : /\ shared = "A" => t[1] = inA
                            /\ shared = "B" => t[2] = inB}

\* setup() of the second run with the levels tA and tB
TwinSetup(shared, tA, tB) ==
  LET bA == Seed(tA, twin.brightnessA)
      bB == Seed(tB, twin.brightnessB)
  IN  [twin EXCEPT !.shared = shared,
                   !.switchStateA = tA, !.switchStateB = tB,
                   !.brightnessA = bA, !.brightnessB = bB,
                   !.pwmA = bA, !.pwmB = bB]

\* loop() of the second run at clock reading cur with the levels tA and tB
\* (its render stage prints what the sample stage left and changes neither
\* brightness nor PWM)
TwinLoop(cur, tA, tB) ==
  LET s == SampleStage(cur, tA, tB, twin.brightnessA, twin.brightnessB)
  IN  IF ReadDue(cur, twin.previousReadMillis)
      THEN [twin EXCEPT !.previousReadMillis = s.previousReadMillis,
                        !.switchStateA = s.switchStateA,
                        !.switchStateB = s.switchStateB,
                        !.brightnessA = s.brightnessA,
                        !.brightnessB = s.brightnessB,
                        !.pwmA = s.pwmA, !.pwmB = s.pwmB]
      ELSE twin

\* setup() in both runs
PairSetup ==
  /\ \E shared \in {"A", "B"}, inA \in Levels, inB \in Levels :
       \E t \in TwinLevels(shared, inA, inB) :
         /\ SetupWith(inA, inB)
         /\ twin' = TwinSetup(shared, t[1], t[2])
  /\ UNCHANGED <<runA, runB, trip>>

\* loop() in both runs, at the same clock reading
PairLoop ==
  /\ loops < MaxPairLoops
  /\ \E d \in Deltas, inA \in Levels, inB \in Levels :
       \E t \in TwinLevels(twin.shared, inA, inB) :
         /\ LoopWith(d, inA, inB)
         /\ twin' = TwinLoop(clock', t[1], t[2])
  /\ UNCHANGED <<runA, runB, trip>>

PairNext == PairSetup \/ PairLoop

PairSpec == Init /\ [][PairNext]_vars

\* the record of the two latest sample ticks after one that found the
\* brightness bA, bB
TripShift(bA, bB) ==
  [beforeA |-> bA, before2A |-> trip.beforeA, levelA |-> switchStateA,
   beforeB |-> bB, before2B |-> trip.beforeB, levelB |-> switchStateB]

\* setup() with the two cups mounted facing opposite ways: switch B reads
\* the level switch A does not
TripSetup ==
  /\ \E inA \in Levels : SetupWith(inA, 1 - inA)
  /\ UNCHANGED <<runA, runB, twin, trip>>

\* loop() called once per readInterval as in RampLoop (the switches turn
\* over together and so stay opposite), the two latest sample ticks recorded
TripLoop ==
  /\ loops < MaxRampTicks
  /\ \E flip \in BOOLEAN :
       LoopWith(readInterval,
                IF flip THEN 1 - switchStateA ELSE switchStateA,
                IF flip THEN 1 - switchStateB ELSE switchStateB)
  /\ trip' = IF reads' = reads + 1 THEN TripShift(brightnessA, brightnessB)
             ELSE trip
  /\ UNCHANGED <<runA, runB, twin>>

TripNext == TripSetup \/ TripLoop

TripSpec == Init /\ [][TripNext]_vars

(***************************************************************************)
(* Vocabulary of the properties.                                           *)
(***************************************************************************)
Byte == MinBrightness..MaxBrightness

\* ceil(255 / step): sample ticks a full ramp takes
RampTicks == (MaxBrightness + brightnessSteps - 1) \div brightnessSteps

Min(a, b) == IF a < b THEN a ELSE b
Max(a, b) == IF a > b THEN a ELSE b

\* the ramp as the specification words it
RefRamp(sw, b) ==
  IF sw = LOW THEN Min(MaxBrightness, b + brightnessSteps)
  ELSE Max(MinBrightness, b - brightnessSteps)

\* number of cells before the first blank of a row
TextLen(row) ==
  IF \E i \in 1..Len(row) : row[i] = " "
  THEN (CHOOSE i \in 1..Len(row) :
          row[i] = " " /\ \A j \in 1..(i - 1) : row[j] # " ") - 1
  ELSE Len(row)

DigitValue(c) == CHOOSE d \in 0..9 : DigitChars[d + 1] = c

RECURSIVE DecValue(_, _)
\* the number the first n cells of a row spell
DecValue(row, n) ==
  IF n = 0 THEN 0 ELSE 10 * DecValue(row, n - 1) + DigitValue(row[n])

\* the row shows the decimal number v and nothing else
FieldShows(row, v) ==
  /\ TextLen(row) > 0
  /\ \A i \in 1..TextLen(row) : row[i] \in {DigitChars[k] : k \in 1..10}
  /\ \A i \in (TextLen(row) + 1)..Len(row) : row[i] = " "
  /\ DecValue(row, TextLen(row)) = v

(***************************************************************************)
(* C1: at boot, after setup() and after every call of loop(), brightnessA  *)
(* and brightnessB are integers in [0,255].                                *)
(***************************************************************************)
C1_BrightnessInRange == brightnessA \in Byte /\ brightnessB \in Byte

\* one sample stage ran the upper clamp for A and the lower clamp for B
C1_Witness ==
  /\ clampA = "hi" /\ brightnessA = MaxBrightness
  /\ clampB = "lo" /\ brightnessB = MinBrightness

(***************************************************************************)
(* C2: rate limiting.  Whenever the sample stage runs for the second time  *)
(* or later, at least readInterval ms have passed since it ran before;     *)
(* whenever the render stage runs for the second time or later, at least   *)
(* updateInterval ms have passed since it ran before.                      *)
(***************************************************************************)
C2_RateLimited ==
  /\ (ranRead /\ reads >= 2) => readElapsed >= readInterval
  /\ (ranUpdate /\ updates >= 2) => updateElapsed >= updateInterval

\* a call of loop() that ran both stages, each for the second time, the
\* sample stage after a gap that is no multiple of readInterval
C2_Witness ==
  /\ ranRead /\ reads >= 2 /\ readElapsed % readInterval # 0
  /\ ranUpdate /\ updates = 2 /\ updateElapsed > updateInterval

(***************************************************************************)
(* C3: a channel at brightness 0 whose switch reads LOW on RampTicks = 128 *)
(* or more consecutive sample ticks is at exactly 255 after the 128th of   *)
(* them and after every later one.                                         *)
(***************************************************************************)
C3_RampUpReachesFull ==
  /\ upFromZeroA >= RampTicks => brightnessA = MaxBrightness
  /\ upFromZeroB >= RampTicks => brightnessB = MaxBrightness

\* channel A two ticks past the end of a full ramp up from 0
C3_Witness ==
  /\ upFromZeroA = RampTicks + 2 /\ brightnessA = MaxBrightness
  /\ switchStateA = LOW

(***************************************************************************)
(* C4: a channel at brightness 255 whose switch reads HIGH on RampTicks =  *)
(* 128 or more consecutive sample ticks is at exactly 0 after the 128th of *)
(* them and after every later one.                                         *)
(***************************************************************************)
C4_RampDownReachesZero ==
  /\ downFromFullA >= RampTicks => brightnessA = MinBrightness
  /\ downFromFullB >= RampTicks => brightnessB = MinBrightness

\* channel B two ticks past the end of a full ramp down from 255
C4_Witness ==
  /\ downFromFullB = RampTicks + 2 /\ brightnessB = MinBrightness
  /\ switchStateB = HIGH

(***************************************************************************)
(* C5: startup seeding.  Nothing is written to a LED before setup(); from  *)
(* the end of setup() until the first sample stage runs, each brightness   *)
(* is 255 if its switch read LOW in setup() and 0 otherwise, each LED has  *)
(* been written with that value, and no render stage has run.              *)
(***************************************************************************)
C5_StartupSeeding ==
  /\ pc = "boot" => (pwmA = -1 /\ pwmB = -1 /\ reads = 0 /\ updates = 0)
  /\ (pc = "loop" /\ reads = 0) =>
       /\ brightnessA = (IF switchStateA = LOW THEN MaxBrightness ELSE MinBrightness)
       /\ brightnessB = (IF switchStateB = LOW THEN MaxBrightness ELSE MinBrightness)
       /\ pwmA = brightnessA
       /\ pwmB = brightnessB
       /\ updates = 0

\* A tilted and B not tilted at startup, loop() called but no stage run yet
C5_Witness ==
  /\ pc = "loop" /\ loops >= 1 /\ reads = 0 /\ updates = 0
  /\ switchStateA = LOW /\ switchStateB = HIGH
  /\ brightnessA = MaxBrightness /\ pwmA = MaxBrightness
  /\ brightnessB = MinBrightness /\ pwmB = MinBrightness

(***************************************************************************)
(* C6: with step 2, k consecutive LOW sample ticks from brightness 0 give  *)
(* brightness 2k for k = 1..127 and 255 for k = 128; the upper clamp runs  *)
(* on the 128th tick and on no other tick of the run.                      *)
(***************************************************************************)
C6_RampUpSequence ==
  /\ brightnessSteps = 2
  /\ (upFromZeroA >= 1 /\ upFromZeroA < RampTicks) =>
       (brightnessA = 2 * upFromZeroA /\ clampA = "none")
  /\ upFromZeroA = RampTicks => (brightnessA = MaxBrightness /\ clampA = "hi")
  /\ upFromZeroA > RampTicks => (brightnessA = MaxBrightness /\ clampA = "none")
  /\ (upFromZeroB >= 1 /\ upFromZeroB < RampTicks) =>
       (brightnessB = 2 * upFromZeroB /\ clampB = "none")
  /\ upFromZeroB = RampTicks => (brightnessB = MaxBrightness /\ clampB = "hi")
  /\ upFromZeroB > RampTicks => (brightnessB = MaxBrightness /\ clampB = "none")

\* the 128th tick of a run on both channels: 256 was replaced by 255
C6_Witness ==
  /\ upFromZeroA = RampTicks /\ clampA = "hi" /\ brightnessA = MaxBrightness
  /\ upFromZeroB = RampTicks /\ clampB = "hi" /\ brightnessB = MaxBrightness

(***************************************************************************)
(* C7: every execution of the sample stage takes each brightness b to      *)
(* min(255, b + 2) when the switch reads LOW and to max(0, b - 2) when it  *)
(* reads HIGH.                                                             *)
(***************************************************************************)
C7_RampMatchesMinMax ==
  [][reads' = reads + 1 =>
       /\ brightnessA' = RefRamp(switchStateA', brightnessA)
       /\ brightnessB' = RefRamp(switchStateB', brightnessB)]_vars

\* a sample stage that found A resting at 0 (released) and B resting at
\* 255 (tilted), where min and max decide the result
C7_Witness ==
  /\ ranRead
  /\ switchStateA = HIGH /\ brightnessA = MinBrightness
  /\ downFromFullA > RampTicks /\ clampA = "none"
  /\ switchStateB = LOW /\ brightnessB = MaxBrightness
  /\ upFromZeroB > RampTicks /\ clampB = "none"

(***************************************************************************)
(* C8: output tracks ramp.  After setup() and after every call of loop()   *)
(* the value last written to each LED is that channel's brightness, and it *)
(* is in [0,255].                                                          *)
(***************************************************************************)
C8_OutputTracksRamp ==
  pc = "loop" =>
    /\ pwmA = brightnessA /\ pwmA \in Byte
    /\ pwmB = brightnessB /\ pwmB \in Byte

\* a sample stage has just moved both ramps, in opposite directions
C8_Witness ==
  /\ ranRead /\ reads >= 3
  /\ pwmA = brightnessA /\ brightnessA = 2 * reads /\ switchStateA = LOW
  /\ pwmB = brightnessB /\ brightnessB = MaxBrightness - 2 * reads
  /\ switchStateB = HIGH

(***************************************************************************)
(* C9: a call of loop() that finds at least updateInterval ms passed since *)
(* the last render (since boot before the first render) runs the render    *)
(* stage, and the two value rows then show brightnessA and brightnessB as  *)
(* they are at the end of that call.                                       *)
(***************************************************************************)
C9_RenderWhenDue ==
  (loops >= 1 /\ updateElapsed >= updateInterval) =>
    /\ ranUpdate
    /\ FieldShows(tft.fieldA, brightnessA)
    /\ FieldShows(tft.fieldB, brightnessB)

\* a call that moved both ramps and rendered the new values, a one-digit
\* number over an earlier one and a three-digit number
C9_Witness ==
  /\ ranRead /\ ranUpdate /\ updates = 2
  /\ brightnessA = 8 /\ tft.fieldA[1] = "8" /\ tft.fieldA[2] = " "
  /\ brightnessB = 247
  /\ tft.fieldB[1] = "2" /\ tft.fieldB[2] = "4" /\ tft.fieldB[3] = "7"

(***************************************************************************)
(* C10: the static header and labels are drawn once, by setup(): never     *)
(* before it, and no call of loop() draws them again.                      *)
(***************************************************************************)
C10_StaticDrawnOnce ==
  /\ pc = "boot" => tft.staticDraws = 0
  /\ pc = "loop" => tft.staticDraws = 1

\* after several calls of loop(), two of them rendering
C10_Witness ==
  /\ pc = "loop" /\ loops >= 3 /\ updates >= 2 /\ tft.staticDraws = 1

(***************************************************************************)
(* C11: the six spaces a render prints over a value row are at least as    *)
(* wide as any brightness in [0,255] printed in decimal (three characters  *)
(* at most), and they are printed before the new number: after a render    *)
(* each value row holds the digits of the current brightness from cell 1   *)
(* and blanks everywhere else, whatever it showed before.                  *)
(***************************************************************************)
C11_NoLeftover ==
  /\ Len(ClearText) = 6
  /\ \A b \in Byte : Len(IntText(b)) <= 3
  /\ ranUpdate =>
       /\ tft.fieldA = PrintAt(BlankRow, IntText(brightnessA))
       /\ tft.fieldB = PrintAt(BlankRow, IntText(brightnessB))

\* the fourth render: A fell from 255 for 80 ticks and shows 95 where the
\* third render had printed 135; B rose from 0 and shows 160 over 120
C11_Witness ==
  /\ ranUpdate /\ updates = 4
  /\ downFromFullA = 80 /\ brightnessA = 95
  /\ tft.fieldA = PrintAt(BlankRow, <<"9", "5">>)
  /\ upFromZeroB = 80 /\ brightnessB = 160

(***************************************************************************)
(* C12: one call of loop() gates both stages on one clock reading: a stage *)
(* that ran left its timer at that reading.  When both stages ran, the     *)
(* sample stage was complete before the render stage began: the rows show  *)
(* the brightness values the sample stage of this call produced, which are *)
(* also the values on the LEDs.  (That a call may run both stages, one, or *)
(* none is shown by the witness.)                                          *)
(***************************************************************************)
C12_SampleBeforeRender ==
  /\ ranRead => previousReadMillis = clock
  /\ ranUpdate => previousUpdateMillis = clock
  /\ (ranRead /\ ranUpdate) =>
       /\ previousReadMillis = previousUpdateMillis
       /\ switchStateA = pinA /\ switchStateB = pinB
       /\ FieldShows(tft.fieldA, pwmA) /\ pwmA = brightnessA
       /\ FieldShows(tft.fieldB, pwmB) /\ pwmB = brightnessB

\* a call that ran the render stage alone, at clock 202, exactly 100 ms
\* after a call that ran both stages at 102; of the five calls so far one
\* ran both stages, two the sample stage alone, one neither and this one
\* the render stage alone
C12_Witness ==
  /\ loops = 5 /\ reads = 3 /\ updates = 2
  /\ ranUpdate /\ ~ranRead
  /\ clock = <<0, 2 * updateInterval + 2>>
  /\ updateElapsed = updateInterval /\ readElapsed = readInterval - 2

(***************************************************************************)
(* C13: a call of loop() runs the sample stage if and only if its clock    *)
(* reading is at least readInterval ms past the last sample (past boot     *)
(* before the first); a sample stage that ran has read both switches and   *)
(* has set the sample timer to the clock reading of that call.             *)
(***************************************************************************)
C13_SampleGate ==
  loops >= 1 =>
    /\ ranRead <=> readElapsed >= readInterval
    /\ ranRead =>
         /\ previousReadMillis = clock
         /\ switchStateA = pinA
         /\ switchStateB = pinB

\* the second sample, 6 ms after the first one at 5: the timer is at 11,
\* not at 10, and the levels read differ from those of setup()
C13_Witness ==
  /\ ranRead /\ reads = 2 /\ readElapsed = readInterval + 1
  /\ clock = <<0, 2 * readInterval + 1>>
  /\ previousReadMillis = <<0, 2 * readInterval + 1>>
  /\ switchStateA = LOW /\ brightnessA = 2
  /\ switchStateB = HIGH /\ brightnessB = MaxBrightness - 2

(***************************************************************************)
(* C14: the stages are independent in what they modify.  A call of loop()  *)
(* that does not run the render stage leaves the render timer and the      *)
(* display as they were; a call that does not run the sample stage leaves  *)
(* the sample timer, both switch states, both brightness values and both   *)
(* LED outputs as they were; a call that runs neither stage changes no     *)
(* variable of the program.                                                *)
(***************************************************************************)
C14_StagesIndependent ==
  [][loops' = loops + 1 =>
       /\ ~ranUpdate' => UNCHANGED <<previousUpdateMillis, tft>>
       /\ ~ranRead' =>
            UNCHANGED <<previousReadMillis, switchStateA, switchStateB,
                        brightnessA, brightnessB, pwmA, pwmB>>
       /\ (~ranRead' /\ ~ranUpdate') =>
            UNCHANGED <<pc, previousReadMillis, previousUpdateMillis,
                        switchStateA, switchStateB, brightnessA, brightnessB,
                        redrawRequired, pwmA, pwmB, tft>>]_vars

\* a call that ran the render stage alone while both switches were at
\* levels other than the ones last read: the switch states were not touched
C14_Witness ==
  /\ ranUpdate /\ ~ranRead /\ updates = 1 /\ reads = 1
  /\ pinA # switchStateA /\ pinB # switchStateB
  /\ FieldShows(tft.fieldA, brightnessA) /\ pwmA = brightnessA

(***************************************************************************)
(* C15: after setup() has set redrawRequired, the first call of loop()     *)
(* renders the two brightness values, whatever the clock reads.            *)
(* (The code never reads redrawRequired: this is violated.)                *)
(***************************************************************************)
C15_InitialRender == loops >= 1 => updates >= 1

(***************************************************************************)
(* C16: no catch-up.  One call of loop() runs the sample stage at most     *)
(* once and moves each brightness by at most brightnessSteps, however many *)
(* multiples of readInterval have passed since the last sample.            *)
(***************************************************************************)
C16_NoCatchUp ==
  [][loops' = loops + 1 =>
       /\ reads' <= reads + 1
       /\ brightnessA' - brightnessA <= brightnessSteps
       /\ brightnessA - brightnessA' <= brightnessSteps
       /\ brightnessB' - brightnessB <= brightnessSteps
       /\ brightnessB - brightnessB' <= brightnessSteps]_vars

\* the second sample came 100 ms (20 intervals) after the first and moved
\* each ramp by one step only
C16_Witness ==
  /\ ranRead /\ reads = 2 /\ readElapsed = 20 * readInterval
  /\ brightnessA = 2 * brightnessSteps
  /\ brightnessB = MaxBrightness - 2 * brightnessSteps

(***************************************************************************)
(* C17: whatever the brightness was before them, RampTicks = 128 sample    *)
(* ticks in a row that read LOW leave the channel at exactly 255 and 128   *)
(* in a row that read HIGH leave it at exactly 0; and a sample tick that   *)
(* finds the channel at 255 and reads LOW, or finds it at 0 and reads      *)
(* HIGH, leaves the brightness as it is.                                   *)
(***************************************************************************)
C17_RunReachesExtreme ==
  /\ [](/\ (runA >= RampTicks /\ switchStateA = LOW) => brightnessA = MaxBrightness
        /\ (runA >= RampTicks /\ switchStateA = HIGH) => brightnessA = MinBrightness
        /\ (runB >= RampTicks /\ switchStateB = LOW) => brightnessB = MaxBrightness
        /\ (runB >= RampTicks /\ switchStateB = HIGH) => brightnessB = MinBrightness)
  /\ [][reads' = reads + 1 =>
          /\ (brightnessA = MaxBrightness /\ switchStateA' = LOW)
               => brightnessA' = MaxBrightness
          /\ (brightnessA = MinBrightness /\ switchStateA' = HIGH)
               => brightnessA' = MinBrightness
          /\ (brightnessB = MaxBrightness /\ switchStateB' = LOW)
               => brightnessB' = MaxBrightness
          /\ (brightnessB = MinBrightness /\ switchStateB' = HIGH)
               => brightnessB' = MinBrightness]_vars

\* A fell from 255 to 55 in 100 ticks and then read LOW 128 times in a row;
\* B rose from 0 to 200 and then read HIGH 128 times in a row
C17_Witness ==
  /\ reads = RampTicks + 100
  /\ runA = RampTicks /\ switchStateA = LOW /\ brightnessA = MaxBrightness
  /\ upFromZeroA = -1
  /\ runB = RampTicks /\ switchStateB = HIGH /\ brightnessB = MinBrightness
  /\ downFromFullB = -1

(***************************************************************************)
(* C18: clock wrap-around.  While the 32-bit millisecond counter passes    *)
(* from 2^32 - 1 to 0, each call of loop() runs the sample stage exactly   *)
(* when at least readInterval ms have truly passed since the last sample,  *)
(* and the render stage exactly when at least updateInterval ms have truly *)
(* passed since the last render: never earlier, and never held back.       *)
(***************************************************************************)
C18_WrapAround ==
  /\ ranRead <=> readElapsed >= readInterval
  /\ ranUpdate <=> updateElapsed >= updateInterval

\* after the wrap, at counter value 4: the sample stage ran at 1 (97 ms
\* after 2^32 - 96), the render stage runs now, exactly 100 ms after it ran
\* at 2^32 - 96, and the sample stage, 3 ms after its last run, does not
C18_Witness ==
  /\ clock = <<0, 4>>
  /\ previousUpdateMillis = <<0, 4>> /\ previousReadMillis = <<0, 1>>
  /\ ranUpdate /\ updateElapsed = updateInterval
  /\ updates = WrapUpdatesBefore + 1
  /\ ~ranRead /\ readElapsed = readInterval - 2
  /\ reads = WrapLoopsBefore + 1

(***************************************************************************)
(* C19: channel independence.  Of two runs that see the same clock         *)
(* readings and, at startup and at every sample, the same level on switch  *)
(* A, but any levels on switch B, both hold the same brightnessA and have  *)
(* written the same value to LED A after every step; and the same with A   *)
(* and B exchanged.                                                        *)
(***************************************************************************)
C19_ChannelIndependence ==
  /\ twin.shared = "A" =>
       /\ twin.brightnessA = brightnessA
       /\ twin.pwmA = pwmA
  /\ twin.shared = "B" =>
       /\ twin.brightnessB = brightnessB
       /\ twin.pwmB = pwmB

\* two runs that agree on switch A only: after two samples with A tilted,
\* both have brightnessA at 4 while one read B released at startup and the
\* other read it tilted, leaving their B channels far apart
C19_Witness ==
  /\ twin.shared = "A"
  /\ reads = 2
  /\ brightnessA = 2 * brightnessSteps /\ twin.brightnessA = brightnessA
  /\ pwmA = brightnessA /\ twin.pwmA = pwmA
  /\ switchStateB # twin.switchStateB
  /\ brightnessB = MinBrightness /\ twin.brightnessB = MaxBrightness

(***************************************************************************)
(* C20: ramp round trip.  A tilted sample tick at brightness b followed by *)
(* a released one ends at b when b <= 253 and at 253 when b is 254 or 255; *)
(* a released tick followed by a tilted one ends at b when b >= 2 and at 2 *)
(* when b is 0 or 1.  For both channels.                                   *)
(***************************************************************************)
C20_RoundTrip ==
  /\ (trip.before2A >= 0 /\ trip.levelA = LOW /\ switchStateA = HIGH) =>
       brightnessA = IF trip.before2A <= 253 THEN trip.before2A ELSE 253
  /\ (trip.before2A >= 0 /\ trip.levelA = HIGH /\ switchStateA = LOW) =>
       brightnessA = IF trip.before2A >= 2 THEN trip.before2A ELSE 2
  /\ (trip.before2B >= 0 /\ trip.levelB = LOW /\ switchStateB = HIGH) =>
       brightnessB = IF trip.before2B <= 253 THEN trip.before2B ELSE 253
  /\ (trip.before2B >= 0 /\ trip.levelB = HIGH /\ switchStateB = LOW) =>
       brightnessB = IF trip.before2B >= 2 THEN trip.before2B ELSE 2

\* channel A went 254 -> 255 -> 253 (the rise cut short by the clamp) while
\* channel B went 1 -> 0 -> 2 the other way round
C20_Witness ==
  /\ trip.before2A = 254 /\ trip.levelA = LOW /\ trip.beforeA = MaxBrightness
  /\ switchStateA = HIGH /\ brightnessA = 253
  /\ trip.before2B = 1 /\ trip.levelB = HIGH /\ trip.beforeB = MinBrightness
  /\ switchStateB = LOW /\ brightnessB = 2

====
